---- MODULE Spec2Model ----
(***************************************************************************)
(* CTAPHID client transport of src/hid/hid_device.cc: the INIT handshake,  *)
(* SendCommand / ReceiveCommand framing, Wink and ExchangeCbor, run        *)
(* against a device that answers every HID read with a frame, a timeout    *)
(* or an error.  One action is one stretch of code between two blocking    *)
(* HID calls (hid_write, hid_read_timeout).                                *)
(***************************************************************************)
EXTENDS Integers, Sequences, FiniteSets, TLC

VARIABLES
  cid_,                  \* HidDevice::cid_
  has_wink_capability_,  \* HidDevice::has_wink_capability_
  has_cbor_capability_,  \* HidDevice::has_cbor_capability_
  has_msg_capability_,   \* HidDevice::has_msg_capability_
  can_wink_,             \* HidDevice::can_wink_ (optional<bool>)
  dev_,                  \* HidDevice::dev_ is non-null
  op,                    \* the public call in progress
  pc,                    \* the blocking call the code is waiting at
  status,                \* the value the call returned
  challenge,             \* Init: the challenge frame
  snd,                   \* SendCommand: its locals
  rcv,                   \* ReceiveCommand: its locals and out-parameters
  end_time,              \* ReceiveCommand: end_time
  xc,                    \* ExchangeCbor: its arguments and locals
  now,                   \* absl::Now(), in ms since the entry of the call
  wire,                  \* the reports hid_write accepted during the call
  echo,                  \* loopback device: reports already read back
  ref,                   \* the same receive, fed only the session's frames
  hist                   \* what the call has done so far (counters)

vars == <<cid_, has_wink_capability_, has_cbor_capability_,
          has_msg_capability_, can_wink_, dev_, op, pc, status, challenge,
          snd, rcv, end_time, xc, now, wire, echo, ref, hist>>

session == <<cid_, has_wink_capability_, has_cbor_capability_,
             has_msg_capability_>>

(***************************************************************************)
(* Bounds of the model.                                                    *)
(***************************************************************************)
\* payloads of 0..MaxSmallLen bytes are all tried, besides the boundary ones
MaxSmallLen == 1
\* the longest payload handed to SendCommand is kMaxDataSize + MaxOver
MaxOver == 1
\* HID reads one call may perform before the device stops answering
MaxReads == 3
\* a frame arrives at once or after DelayStep ms
DelayStep == 2500

(***************************************************************************)
(* A uint32_t is the pair <<high 16 bits, low 16 bits>>: the 32-bit values *)
(* of the code do not fit the integers of the checker.                     *)
(***************************************************************************)
U32(hi, lo) == <<hi, lo>>

(***************************************************************************)
(* Constants of hid_device.cc.                                             *)
(***************************************************************************)
\* 0xFFFFFFFF
kIdBroadcast == U32(65535, 65535)
kInitNonceSize == 8
kInitRespSize == 17
kMaxDataSize == 7609
kReceiveTimeout == 5000
kWinkCapabilityMask == 1
kCborCapabilityMask == 4
kNmsgCapabilityMask == 8
kCtap2ErrCborParsingRemovedStatus == 16
kCtap2ErrInvalidCborTypeRemovedStatus == 19
kCtap2ErrExtensionFirst == 224
kCtap2ErrExtensionLast == 239
kCtap2ErrVendorFirst == 240
kCtap2ErrVendorLast == 248
\* the sentinel of memset(frame.init.data, 0xEE, ...)
FillByte == 238

(***************************************************************************)
(* Frame (hid/hid_device.h): 4 bytes of cid, then 60 bytes that are either *)
(* init {cmd, bcnth, bcntl, data[57]} or cont {seq, data[59]}; raw[1] is   *)
(* the type byte shared by init.cmd and cont.seq.                          *)
(***************************************************************************)
kTypeInitMask == 128
kInitDataSize == 57
kContDataSize == 59

kCtapHidPing == kTypeInitMask + 1
kCtapHidInit == kTypeInitMask + 6
kCtapHidWink == kTypeInitMask + 8
kCtapHidError == kTypeInitMask + 63
kCtapHidCbor == kTypeInitMask + 16
kCtapHidKeepalive == kTypeInitMask + 59

\* Status (constants.h), as the byte a Status value holds
kErrNone == 0
kErrInvalidCommand == 1
kErrInvalidLength == 3
kErrInvalidSeq == 4
kErrTimeout == 5
kErrOther == 127

\* the values of the enumerators IsKnownStatusByte lists
StatusEnum ==
  {0, 1, 2, 3, 4, 5, 6, 10, 11} \cup {17, 18, 20, 21, 22, 25}
    \cup (33..40) \cup (42..47) \cup (48..60) \cup {127}

\* KeepaliveStatus (constants.h)
kStatusProcessing == 1
kStatusUpNeeded == 2
kStatusError == 0

Byte == 0..255

Min(a, b) == IF a < b THEN a ELSE b

\* x | Frame::kTypeInitMask on a uint8_t
OrInitMask(x) == IF x >= kTypeInitMask THEN x ELSE x + kTypeInitMask

\* byte & mask != 0, for a mask of one bit
TestMask(b, mask) == (b \div mask) % 2 = 1

IsInitType(f) == f.raw[1] >= kTypeInitMask
MaskedSeq(f) == f.raw[1] % kTypeInitMask
PayloadLength(f) == f.raw[2] * 256 + f.raw[3]
\* frame.init.data[i] and frame.cont.data[i], i counted from 0
InitData(f, i) == f.raw[4 + i]
ContData(f, i) == f.raw[2 + i]

\* memset(dst, 0xEE, cap) followed by std::copy_n(data + off, n, dst)
FillCopy(data, off, n, cap) ==
  [i \in 1..cap |-> IF i <= n THEN data[off + i] ELSE FillByte]

\* htonl(cid) as it lies in memory: the four bytes, most significant first
htonl(c) == <<c[1] \div 256, c[1] % 256, c[2] \div 256, c[2] % 256>>
\* ntohl of the four bytes read from the wire
ntohl(b) == U32(b[1] * 256 + b[2], b[3] * 256 + b[4])

\* the 65 bytes SendFrame hands to hid_write
Report(f) == <<0>> \o htonl(f.cid) \o f.raw
\* the Frame ReceiveFrame returns for the 64 bytes hid_read_timeout read
Decode(b) == [cid |-> ntohl(SubSeq(b, 1, 4)), raw |-> SubSeq(b, 5, 64)]

(***************************************************************************)
(* SendCommand.  snd holds its locals between two SendFrame calls.         *)
(***************************************************************************)
NoFrame == [cid |-> U32(0, 0), raw |-> <<>>]
NoSnd == [cmd |-> 0, data |-> <<>>, remaining_data_size |-> 0, data_it |-> 0,
          frame_len |-> 0, seq |-> 0, frame |-> NoFrame]

\* lines 345-356: the init frame, ready for the first SendFrame
SendCommandEntry(cmd, data) ==
  LET size == Len(data)
      frame_len == Min(size, kInitDataSize)
  IN  [cmd |-> cmd, data |-> data, remaining_data_size |-> size,
       data_it |-> 0, frame_len |-> frame_len, seq |-> 0,
       frame |-> [cid |-> cid_,
                  raw |-> <<OrInitMask(cmd), (size \div 256) % 256,
                            size % 256>>
                          \o FillCopy(data, 0, frame_len, kInitDataSize)]]

\* SendCommandNext with ++seq in place of seq++
SendCommandNext_PreIncrement(s) ==
  LET remaining == s.remaining_data_size - s.frame_len
      it == s.data_it + s.frame_len
      frame_len == Min(remaining, kContDataSize)
  IN  [s EXCEPT !.remaining_data_size = remaining,
                !.data_it = it,
                !.seq = (s.seq + 1) % 256,
                !.frame_len = frame_len,
                !.frame = [cid |-> s.frame.cid,
                           raw |-> <<(s.seq + 1) % 256>>
                                   \o FillCopy(s.data, it, frame_len,
                                               kContDataSize)]]

\* lines 361-367: after a successful SendFrame, the next continuation frame
SendCommandNext(s) ==
  LET remaining == s.remaining_data_size - s.frame_len
      it == s.data_it + s.frame_len
      frame_len == Min(remaining, kContDataSize)
  IN  [s EXCEPT !.remaining_data_size = remaining,
                !.data_it = it,
                !.seq = (s.seq + 1) % 256,
                !.frame_len = frame_len,
                !.frame = [cid |-> s.frame.cid,
                           raw |-> <<s.seq>>
                                   \o FillCopy(s.data, it, frame_len,
                                               kContDataSize)]]

(***************************************************************************)
(* ReceiveCommand.  rcv holds the out-parameters *cmd and *data, the       *)
(* locals total_len and seq, the loop the call is in (phase) and, once it  *)
(* has returned, the status (phase = "ret"; io = the status came from      *)
(* ReceiveFrame).                                                          *)
(***************************************************************************)
NoRcv == [phase |-> "none", status |-> kErrNone, io |-> FALSE, cmd |-> 0,
          data |-> <<>>, total_len |-> 0, seq |-> 0]

\* lines 375-376: data->clear(); *cmd keeps the caller's value
ReceiveCommandEntry(cmd) == [NoRcv EXCEPT !.phase = "first", !.cmd = cmd]

Returned(r, st) == [r EXCEPT !.phase = "ret", !.status = st]

\* AcceptInit without the ceiling of line 389
AcceptInit_NoCeiling(r, f) ==
  IF f.raw[1] = kCtapHidError THEN Returned(r, InitData(f, 0))
  ELSE LET total_len == PayloadLength(f)
           frame_len == Min(kInitDataSize, total_len)
           got == [r EXCEPT !.cmd = f.raw[1]]
           more == [got EXCEPT
                      !.data = [i \in 1..frame_len |-> InitData(f, i - 1)],
                      !.total_len = total_len - frame_len,
                      !.seq = 0,
                      !.phase = "cont"]
       IN  IF more.total_len = 0 THEN Returned(more, kErrNone) ELSE more

\* lines 382-394: the frame that ended the first loop
AcceptInit(r, f) ==
  IF f.raw[1] = kCtapHidError THEN Returned(r, InitData(f, 0))
  ELSE LET total_len == PayloadLength(f)
           frame_len == Min(kInitDataSize, total_len)
           got == [r EXCEPT !.cmd = f.raw[1]]
       IN  IF total_len > kMaxDataSize THEN Returned(got, kErrInvalidLength)
           ELSE LET more == [got EXCEPT
                               !.data = [i \in 1..frame_len |->
                                           InitData(f, i - 1)],
                               !.total_len = total_len - frame_len,
                               !.seq = 0,
                               !.phase = "cont"]
                IN  IF more.total_len = 0 THEN Returned(more, kErrNone)
                    ELSE more

\* AcceptCont that compares with seq and forgets to advance it
AcceptCont_SeqNotAdvanced(r, f) ==
  IF f.cid # cid_ THEN r
  ELSE IF IsInitType(f) THEN Returned(r, kErrInvalidSeq)
  ELSE IF MaskedSeq(f) # r.seq THEN Returned(r, kErrInvalidSeq)
  ELSE LET frame_len == Min(kContDataSize, r.total_len)
           more == [r EXCEPT
                      !.data = r.data \o [i \in 1..frame_len |->
                                            ContData(f, i - 1)],
                      !.total_len = r.total_len - frame_len]
       IN  IF more.total_len = 0 THEN Returned(more, kErrNone) ELSE more

\* AcceptCont without the channel test of line 401
AcceptCont_AnyChannel(r, f) ==
  IF IsInitType(f) THEN Returned(r, kErrInvalidSeq)
  ELSE IF MaskedSeq(f) # r.seq
       THEN Returned([r EXCEPT !.seq = (r.seq + 1) % 256], kErrInvalidSeq)
  ELSE LET frame_len == Min(kContDataSize, r.total_len)
           more == [r EXCEPT
                      !.seq = (r.seq + 1) % 256,
                      !.data = r.data \o [i \in 1..frame_len |->
                                            ContData(f, i - 1)],
                      !.total_len = r.total_len - frame_len]
       IN  IF more.total_len = 0 THEN Returned(more, kErrNone) ELSE more

\* AcceptCont that lets a sequence number run ahead
AcceptCont_GapsAllowed(r, f) ==
  IF f.cid # cid_ THEN r
  ELSE IF IsInitType(f) THEN Returned(r, kErrInvalidSeq)
  ELSE IF MaskedSeq(f) < r.seq
       THEN Returned([r EXCEPT !.seq = (r.seq + 1) % 256], kErrInvalidSeq)
  ELSE LET frame_len == Min(kContDataSize, r.total_len)
           more == [r EXCEPT
                      !.seq = (r.seq + 1) % 256,
                      !.data = r.data \o [i \in 1..frame_len |->
                                            ContData(f, i - 1)],
                      !.total_len = r.total_len - frame_len]
       IN  IF more.total_len = 0 THEN Returned(more, kErrNone) ELSE more

\* lines 401-409: a frame read in the continuation loop
AcceptCont(r, f) ==
  IF f.cid # cid_ THEN r
  ELSE IF IsInitType(f) THEN Returned(r, kErrInvalidSeq)
  ELSE IF MaskedSeq(f) # r.seq
       THEN Returned([r EXCEPT !.seq = (r.seq + 1) % 256], kErrInvalidSeq)
  ELSE LET frame_len == Min(kContDataSize, r.total_len)
           more == [r EXCEPT
                      !.seq = (r.seq + 1) % 256,
                      !.data = r.data \o [i \in 1..frame_len |->
                                            ContData(f, i - 1)],
                      !.total_len = r.total_len - frame_len]
       IN  IF more.total_len = 0 THEN Returned(more, kErrNone) ELSE more

\* what ReceiveCommand does with a frame ReceiveFrame returned
ProcessFrame(r, f) ==
  IF r.phase = "first"
  THEN IF f.cid # cid_ \/ ~IsInitType(f) THEN r ELSE AcceptInit(r, f)
  ELSE AcceptCont(r, f)

\* lines 380-381, 398-399: ReceiveFrame failed with st
ReceiveFailed(r, st) == [Returned(r, st) EXCEPT !.io = TRUE]

\* every ReceiveFrame of the call is given the whole timeout
Remaining_WholeTimeout == kReceiveTimeout

\* the timeout ReceiveCommand passes to ReceiveFrame: end_time - absl::Now()
Remaining == end_time - now

\* ProcessKeepalive that takes every single byte for a status
ProcessKeepalive_AnyByte(data) ==
  IF Len(data) # 1 THEN kStatusError
  ELSE IF data[1] = kStatusUpNeeded THEN kStatusUpNeeded
  ELSE kStatusProcessing

ProcessKeepalive(data) ==
  IF Len(data) # 1 THEN kStatusError
  ELSE IF data[1] = kStatusProcessing THEN kStatusProcessing
  ELSE IF data[1] = kStatusUpNeeded THEN kStatusUpNeeded
  ELSE kStatusError

IsKnownStatusByte(status_byte) == status_byte \in StatusEnum

(***************************************************************************)
(* The code that runs between two blocking calls, as a function of the     *)
(* control state c (the variables it may change) and the time t.           *)
(***************************************************************************)
NoXc == [command |-> 0, payload |-> <<>>, expect_up_check |-> FALSE,
         response_cbor |-> <<>>, before |-> <<>>, has_sent_prompt |-> FALSE]

\* what is known of the last frame Init read: nothing was read
NoFacts == [read |-> FALSE, cid |-> FALSE, opcode |-> FALSE,
            length |-> FALSE, nonce |-> FALSE]

NoHist == [writes |-> 0, reads |-> 0, calls |-> 0, skipped |-> 0,
           prompts |-> 0, keepalives |-> 0, upneeded |-> 0,
           skipped_mid |-> 0, deadline_hit |-> FALSE,
           discarded |-> 0, defects |-> {}, last |-> NoFacts,
           wink_seen |-> FALSE, diag |-> "none", failmsg |-> "none",
           response |-> <<>>, inits |-> 0, type |-> 0, bcnt |-> 0,
           types |-> <<>>]

Cur == [pc |-> pc, status |-> status, rcv |-> rcv, ref |-> ref,
        end_time |-> end_time, can_wink_ |-> can_wink_, xc |-> xc,
        hist |-> hist]

Commit(c) ==
  /\ pc' = c.pc
  /\ status' = c.status
  /\ rcv' = c.rcv
  /\ ref' = c.ref
  /\ end_time' = c.end_time
  /\ can_wink_' = c.can_wink_
  /\ xc' = c.xc
  /\ hist' = c.hist

\* return st from the public call
Done(c, st) == [c EXCEPT !.pc = "done", !.status = st]

\* a failed CHECK: the process is gone, nothing is returned
Aborted(c) == [c EXCEPT !.pc = "aborted"]

\* ReceiveCommand(timeout, &cmd, &recv_data) entered at time t
CallReceive(c, timeout, t) ==
  [c EXCEPT !.pc = "recv",
            !.rcv = ReceiveCommandEntry(c.rcv.cmd),
            !.ref = ReceiveCommandEntry(c.rcv.cmd),
            !.end_time = t + timeout,
            !.hist.calls = @ + 1,
            !.hist.types = <<>>]

\* Wink, lines 216-219, with the status ReceiveCommand returned
WinkAfterReceive(c) ==
  IF c.rcv.cmd # kCtapHidWink THEN Done(c, kErrInvalidCommand)
  ELSE IF c.rcv.data # <<>> THEN Done(c, kErrInvalidLength)
  ELSE Done([c EXCEPT !.can_wink_ = (c.rcv.status = kErrNone)], c.rcv.status)

\* ExchangeCbor, lines 261-268: the prompt cross-check
PromptDiag(x) ==
  IF x.has_sent_prompt /\ ~x.expect_up_check THEN "unexpected"
  ELSE IF ~x.has_sent_prompt /\ x.expect_up_check THEN "missing"
  ELSE "none"

\* ExchangeFinish that fails the call on a prompt that was not expected, or
\* expected and not sent
ExchangeFinish_FailOnPromptMismatch(c) ==
  IF c.rcv.cmd # kCtapHidCbor THEN Done(c, kErrInvalidCommand)
  ELSE IF c.rcv.data = <<>> THEN Done(c, kErrInvalidLength)
  ELSE LET b == c.rcv.data[1]
           c1 == [c EXCEPT !.xc.response_cbor = @ \o Tail(c.rcv.data),
                           !.hist.diag = PromptDiag(c.xc)]
       IN  IF PromptDiag(c.xc) # "none" THEN Done(c1, kErrOther)
           ELSE IF b = kCtap2ErrCborParsingRemovedStatus
              \/ b = kCtap2ErrInvalidCborTypeRemovedStatus
           THEN Done([c1 EXCEPT !.hist.failmsg = "deprecated"], kErrOther)
           ELSE IF b >= kCtap2ErrExtensionFirst /\ b <= kCtap2ErrExtensionLast
           THEN Done([c1 EXCEPT !.hist.failmsg = "extension"], kErrOther)
           ELSE IF b >= kCtap2ErrVendorFirst /\ b <= kCtap2ErrVendorLast
           THEN Done([c1 EXCEPT !.hist.failmsg = "vendor"], kErrOther)
           ELSE IF ~IsKnownStatusByte(b) THEN Aborted(c1)
           ELSE Done(c1, b)

\* ExchangeFinish whose vendor range starts one code late
ExchangeFinish_VendorFromSecond(c) ==
  IF c.rcv.cmd # kCtapHidCbor THEN Done(c, kErrInvalidCommand)
  ELSE IF c.rcv.data = <<>> THEN Done(c, kErrInvalidLength)
  ELSE LET b == c.rcv.data[1]
           c1 == [c EXCEPT !.xc.response_cbor = @ \o Tail(c.rcv.data),
                           !.hist.diag = PromptDiag(c.xc)]
       IN  IF b = kCtap2ErrCborParsingRemovedStatus
              \/ b = kCtap2ErrInvalidCborTypeRemovedStatus
           THEN Done([c1 EXCEPT !.hist.failmsg = "deprecated"], kErrOther)
           ELSE IF b >= kCtap2ErrExtensionFirst /\ b <= kCtap2ErrExtensionLast
           THEN Done([c1 EXCEPT !.hist.failmsg = "extension"], kErrOther)
           ELSE IF b > kCtap2ErrVendorFirst /\ b <= kCtap2ErrVendorLast
           THEN Done([c1 EXCEPT !.hist.failmsg = "vendor"], kErrOther)
           ELSE IF ~IsKnownStatusByte(b) THEN Aborted(c1)
           ELSE Done(c1, b)

\* ExchangeCbor, lines 255-294: after the keepalive loop
ExchangeFinish(c) ==
  IF c.rcv.cmd # kCtapHidCbor THEN Done(c, kErrInvalidCommand)
  ELSE IF c.rcv.data = <<>> THEN Done(c, kErrInvalidLength)
  ELSE LET b == c.rcv.data[1]
           c1 == [c EXCEPT !.xc.response_cbor = @ \o Tail(c.rcv.data),
                           !.hist.diag = PromptDiag(c.xc)]
       IN  IF b = kCtap2ErrCborParsingRemovedStatus
              \/ b = kCtap2ErrInvalidCborTypeRemovedStatus
           THEN Done([c1 EXCEPT !.hist.failmsg = "deprecated"], kErrOther)
           ELSE IF b >= kCtap2ErrExtensionFirst /\ b <= kCtap2ErrExtensionLast
           THEN Done([c1 EXCEPT !.hist.failmsg = "extension"], kErrOther)
           ELSE IF b >= kCtap2ErrVendorFirst /\ b <= kCtap2ErrVendorLast
           THEN Done([c1 EXCEPT !.hist.failmsg = "vendor"], kErrOther)
           ELSE IF ~IsKnownStatusByte(b) THEN Aborted(c1)
           ELSE Done(c1, b)

\* ExchangeAfterReceive that prompts at every UpNeeded keepalive
ExchangeAfterReceive_PromptEach(c, t) ==
  IF c.rcv.status # kErrNone THEN Done(c, c.rcv.status)
  ELSE IF c.rcv.cmd = kCtapHidKeepalive
  THEN LET keepalive_response == ProcessKeepalive(c.rcv.data)
           prompt == keepalive_response = kStatusUpNeeded
       IN  IF keepalive_response = kStatusError THEN Done(c, kErrOther)
           ELSE CallReceive(
                  [c EXCEPT
                     !.xc.has_sent_prompt = @ \/ prompt,
                     !.hist.prompts = IF prompt THEN @ + 1 ELSE @],
                  kReceiveTimeout, t)
  ELSE ExchangeFinish(c)

\* ExchangeCbor, lines 238-253: ReceiveCommand has returned at time t
ExchangeAfterReceive(c, t) ==
  IF c.rcv.status # kErrNone THEN Done(c, c.rcv.status)
  ELSE IF c.rcv.cmd = kCtapHidKeepalive
  THEN LET keepalive_response == ProcessKeepalive(c.rcv.data)
           prompt == keepalive_response = kStatusUpNeeded
                     /\ ~c.xc.has_sent_prompt
       IN  IF keepalive_response = kStatusError THEN Done(c, kErrOther)
           ELSE CallReceive(
                  [c EXCEPT
                     !.xc.has_sent_prompt = @ \/ prompt,
                     !.hist.prompts = IF prompt THEN @ + 1 ELSE @],
                  kReceiveTimeout, t)
  ELSE ExchangeFinish(c)

\* the caller of ReceiveCommand goes on, at time t
AfterReceive(c, t) ==
  IF op = "Wink" THEN WinkAfterReceive(c)
  ELSE IF op = "ExchangeCbor" THEN ExchangeAfterReceive(c, t)
  ELSE Done(c, c.rcv.status)

\* the caller of SendCommand goes on with its status st, at time t
AfterSend(c, st, t) ==
  IF op = "SendCommand" \/ st # kErrNone THEN Done(c, st)
  ELSE CallReceive(c, kReceiveTimeout, t)

\* SendCommand, lines 358-368, and its caller: SendFrame returned st at time
\* t and s is what SendCommand holds after it
WriteStep(c, s, st, t) ==
  LET c1 == [c EXCEPT !.hist.writes = @ + 1]
  IN  IF st = kErrNone /\ s.remaining_data_size # 0 THEN c1
      ELSE AfterSend(c1, st, t)

\* ReceiveCommand, lines 380-381 and 398-399, and its caller: ReceiveFrame
\* failed with st at time t, having called hid_read_timeout (read) or not
FailStep(c, st, read, t) ==
  AfterReceive([c EXCEPT !.rcv = ReceiveFailed(c.rcv, st),
                         !.hist.reads = IF read THEN @ + 1 ELSE @,
                         !.hist.deadline_hit = @ \/ ~read],
               t)

(***************************************************************************)
(* The payloads and opcodes handed to SendCommand and ExchangeCbor.        *)
(***************************************************************************)
Payload(k) == [i \in 1..k |-> (i * 37 + 11) % 256]

\* around the capacities of the init and continuation frames and the ceiling
FramingLens ==
  (0..MaxSmallLen)
    \cup {kInitDataSize, kInitDataSize + 1, kInitDataSize + kContDataSize,
          kInitDataSize + kContDataSize + 1, 200, kMaxDataSize - 1,
          kMaxDataSize}
    \cup {kMaxDataSize + i : i \in 1..MaxOver}

\* PING and ERROR as 7-bit opcodes, CBOR with the init bit already set
FramingCmds == {1, 63, kCtapHidCbor}

(***************************************************************************)
(* Actions.                                                                *)
(***************************************************************************)
\* the 64 bytes are an init frame on the session's channel with opcode WINK
\* and bcnt = 0
IsWinkResponse(b) ==
  /\ SubSeq(b, 1, 4) = htonl(cid_)
  /\ SubSeq(b, 5, 7) = <<136, 0, 0>>

\* the 64 bytes are a frame of a channel that is not the session's
IsForeign(b) == SubSeq(b, 1, 4) # htonl(cid_)

\* the 64 bytes are what a ReceiveCommand that waits for a message returns
\* as a keepalive of one byte, a kind of the set kinds
YieldsKeepalive(b, kinds) ==
  /\ rcv.phase = "first"
  /\ SubSeq(b, 1, 4) = htonl(cid_)
  /\ SubSeq(b, 5, 7) = <<187, 0, 1>>
  /\ b[8] \in kinds

\* ReceiveCommand, lines 379-409, and its caller: ReceiveFrame returned the
\* 64 bytes b at time t
ReadStep(c, b, t) ==
  LET f == Decode(b)
      first == c.rcv.phase = "first"
      opens == ~IsForeign(b) /\ first /\ b[5] >= 128
      c1 == [c EXCEPT
               !.rcv = ProcessFrame(c.rcv, f),
               !.ref = IF IsForeign(b) THEN c.ref ELSE ProcessFrame(c.ref, f),
               !.hist.reads = @ + 1,
               !.hist.skipped = IF IsForeign(b) THEN @ + 1 ELSE @,
               !.hist.skipped_mid =
                  IF IsForeign(b) /\ ~first THEN @ + 1 ELSE @,
               !.hist.keepalives =
                  IF YieldsKeepalive(b, {1, 2}) THEN @ + 1 ELSE @,
               !.hist.upneeded =
                  IF YieldsKeepalive(b, {2}) THEN @ + 1 ELSE @,
               !.hist.wink_seen = @ \/ IsWinkResponse(b),
               !.hist.inits = IF opens THEN @ + 1 ELSE @,
               !.hist.type = IF opens THEN b[5] ELSE @,
               !.hist.bcnt = IF opens THEN b[6] * 256 + b[7] ELSE @,
               !.hist.types =
                  IF ~IsForeign(b) /\ ~first THEN Append(@, b[5]) ELSE @]
  IN  IF c1.rcv.phase = "ret" THEN AfterReceive(c1, t) ELSE c1

\* SendFrame (hid_write) succeeded inside SendCommand
Send_WriteOk ==
  /\ pc = "send"
  /\ wire' = Append(wire, Report(snd.frame))
  /\ snd' = SendCommandNext(snd)
  /\ Commit(WriteStep(Cur, SendCommandNext(snd), kErrNone, now))
  /\ UNCHANGED <<session, dev_, op, challenge, now, echo>>

\* SendFrame (hid_write) failed inside SendCommand
Send_WriteFail ==
  /\ pc = "send"
  /\ Commit(WriteStep(Cur, snd, kErrOther, now))
  /\ UNCHANGED <<session, dev_, op, challenge, snd, now, wire, echo>>

\* ReceiveFrame returns kErrTimeout without reading: no budget is left
Recv_Deadline ==
  /\ pc = "recv"
  /\ Remaining <= 0
  /\ Commit(FailStep(Cur, kErrTimeout, FALSE, now))
  /\ UNCHANGED <<session, dev_, op, challenge, snd, now, wire, echo>>

\* hid_read_timeout(Remaining) returned the 64 bytes b after d ms
Recv_Read(b, d) ==
  /\ pc = "recv"
  /\ Remaining > 0
  /\ d <= Remaining
  /\ now' = now + d
  /\ Commit(ReadStep(Cur, b, now + d))
  /\ UNCHANGED <<session, dev_, op, challenge, snd, wire>>

\* the device answers the read with b after d ms
Recv_Device(b, d) ==
  /\ hist.reads < MaxReads
  /\ Recv_Read(b, d)
  /\ echo' = echo

\* the loopback device hands back the next report that was written to it
Recv_Echo ==
  /\ echo < Len(wire)
  /\ Recv_Read(Tail(wire[echo + 1]), 0)
  /\ echo' = echo + 1

\* SendCommand(cmd, data) called on the open session
SendCommand_Call(cmd, data) ==
  /\ pc = "idle"
  /\ dev_
  /\ op' = "SendCommand"
  /\ pc' = "send"
  /\ snd' = SendCommandEntry(cmd, data)
  /\ UNCHANGED <<session, can_wink_, dev_, status, challenge, rcv, end_time,
                 xc, now, wire, echo, ref, hist>>

\* ReceiveCommand(kReceiveTimeout, &cmd, &data) called on what was just sent
ReceiveCommand_Call ==
  /\ pc = "done"
  /\ op = "SendCommand"
  /\ status = kErrNone
  /\ op' = "ReceiveCommand"
  /\ Commit(CallReceive(Cur, kReceiveTimeout, now))
  /\ UNCHANGED <<session, dev_, challenge, snd, now, wire, echo>>

\* ExchangeCbor, lines 228-233: what the call holds when it returns
\* InvalidLength or waits for its first SendFrame
ExchangeEntry(command, payload, expect_up_check, response_cbor) ==
  LET long == 1 + Len(payload) > kMaxDataSize
  IN  [xc |-> [NoXc EXCEPT !.command = command, !.payload = payload,
                           !.expect_up_check = expect_up_check,
                           !.response_cbor = response_cbor,
                           !.before = response_cbor],
       rcv |-> [NoRcv EXCEPT !.cmd = kCtapHidCbor],
       pc |-> IF long THEN "done" ELSE "send",
       status |-> IF long THEN kErrInvalidLength ELSE status,
       snd |-> IF long THEN snd
               ELSE SendCommandEntry(kCtapHidCbor, <<command>> \o payload)]

\* ExchangeCbor(command, payload, expect_up_check, response_cbor) called
ExchangeCbor_Call(command, payload, expect_up_check, response_cbor) ==
  /\ pc = "idle"
  /\ dev_
  /\ op' = "ExchangeCbor"
  /\ LET e == ExchangeEntry(command, payload, expect_up_check, response_cbor)
     IN  /\ xc' = e.xc
         /\ rcv' = e.rcv
         /\ pc' = e.pc
         /\ status' = e.status
         /\ snd' = e.snd
  /\ UNCHANGED <<session, can_wink_, dev_, challenge, end_time, now, wire,
                 echo, ref, hist>>

\* the call has returned; its locals are gone
Return ==
  /\ pc = "done"
  /\ pc' = "idle"
  /\ op' = "none"
  /\ status' = kErrNone
  /\ challenge' = NoFrame
  /\ snd' = NoSnd
  /\ rcv' = NoRcv
  /\ ref' = NoRcv
  /\ end_time' = 0
  /\ xc' = NoXc
  /\ now' = 0
  /\ wire' = <<>>
  /\ echo' = 0
  /\ hist' = NoHist
  /\ UNCHANGED <<session, can_wink_, dev_>>

\* the session ids the device hands out in this model
SessionCids == {U32(0, 1), U32(57005, 48879)}

\* after construction: no handle, no call in progress
Init ==
  /\ cid_ = U32(0, 0)
  /\ has_wink_capability_ = FALSE
  /\ has_cbor_capability_ = FALSE
  /\ has_msg_capability_ = FALSE
  /\ can_wink_ = "nullopt"
  /\ dev_ = FALSE
  /\ op = "none"
  /\ pc = "idle"
  /\ status = kErrNone
  /\ challenge = NoFrame
  /\ snd = NoSnd
  /\ rcv = NoRcv
  /\ ref = NoRcv
  /\ end_time = 0
  /\ xc = NoXc
  /\ now = 0
  /\ wire = <<>>
  /\ echo = 0
  /\ hist = NoHist

(***************************************************************************)
(* InitOpen: a session a successful Init has opened.                       *)
(* SpecFraming: an open session whose device is a loopback; SendCommand,   *)
(* ReceiveCommand and ExchangeCbor on payloads around the frame capacities *)
(* and the length ceiling.                                                 *)
(***************************************************************************)
InitOpen ==
  /\ cid_ \in SessionCids
  /\ has_wink_capability_ = TRUE
  /\ has_cbor_capability_ = TRUE
  /\ has_msg_capability_ = TRUE
  /\ can_wink_ = "nullopt"
  /\ dev_ = TRUE
  /\ op = "none"
  /\ pc = "idle"
  /\ status = kErrNone
  /\ challenge = NoFrame
  /\ snd = NoSnd
  /\ rcv = NoRcv
  /\ ref = NoRcv
  /\ end_time = 0
  /\ xc = NoXc
  /\ now = 0
  /\ wire = <<>>
  /\ echo = 0
  /\ hist = NoHist

NextFraming ==
  \/ \E cmd \in FramingCmds, k \in FramingLens :
       SendCommand_Call(cmd, Payload(k))
  \/ \E k \in {kMaxDataSize - 2, kMaxDataSize - 1, kMaxDataSize} :
       ExchangeCbor_Call(1, Payload(k), FALSE, <<>>)
  \/ Send_WriteOk
  \/ Send_WriteFail
  \/ ReceiveCommand_Call
  \/ Recv_Echo
  \/ Return

SpecFraming == InitOpen /\ [][NextFraming]_vars

(***************************************************************************)
(* The device.  It answers a read with 64 bytes: an init frame or a        *)
(* continuation frame on some channel, its unused bytes zero.              *)
(***************************************************************************)
Pad(data, cap) == [i \in 1..cap |-> IF i <= Len(data) THEN data[i] ELSE 0]

DevInit(cid, cmd, bcnt, data) ==
  htonl(cid) \o <<cmd, bcnt \div 256, bcnt % 256>> \o Pad(data, kInitDataSize)

DevCont(cid, seq, data) == htonl(cid) \o <<seq>> \o Pad(data, kContDataSize)

\* a channel other than c
OtherCid(c) == IF c = U32(0, 1) THEN U32(57005, 48879) ELSE U32(0, 1)

\* first payload bytes: known status codes (Ok, InvalidCommand, NoCredentials),
\* a removed code, an extension code, a vendor code and a byte of no range
SampleBytes == {0, 1, 16, 46, 224, 242, 249}

\* a payload starting with b
DevData(b) == <<b, 129, 24, 42>>

\* answers on the channel c: WINK, CBOR, KEEPALIVE, ERROR and PING init
\* frames that declare nothing, one frame, a frame and a continuation, or
\* more than the ceiling; continuation frames 0 and 1
ReportsOn(c) ==
  {DevInit(c, kCtapHidWink, bcnt, DevData(0)) :
     bcnt \in {0, 1, kInitDataSize + 1}}
    \cup {DevInit(c, kCtapHidCbor, bcnt, DevData(b)) :
            bcnt \in {1, 4}, b \in SampleBytes}
    \cup {DevInit(c, kCtapHidCbor, bcnt, DevData(0)) :
            bcnt \in {0, kInitDataSize + 1, kMaxDataSize + 1}}
    \cup {DevInit(c, kCtapHidKeepalive, 1, DevData(b)) : b \in {1, 2, 3}}
    \cup {DevInit(c, kCtapHidKeepalive, bcnt, DevData(2)) : bcnt \in {0, 2}}
    \cup {DevInit(c, kCtapHidError, 1, DevData(b)) : b \in SampleBytes}
    \cup {DevInit(c, kCtapHidPing, 1, DevData(0))}
    \cup {DevCont(c, seq, DevData(7)) : seq \in {0, 1}}

\* the values cid_ takes in this model
AllCids == {U32(0, 0), U32(0, 1), U32(57005, 48879), kIdBroadcast}

\* what a read of ReceiveCommand may return when the session's channel is c:
\* an answer on c, or a frame of another channel
ReportTable ==
  [c \in AllCids |->
     ReportsOn(c)
       \cup {DevInit(OtherCid(c), kCtapHidCbor, 1, DevData(0)),
             DevCont(OtherCid(c), 0, DevData(9))}]

DeviceReports == ReportTable[cid_]

\* a frame arrives at once or after DelayStep ms, at the latest as the
\* budget t runs out
Delays(t) == {0, Min(DelayStep, t)}

\* the nonces rand_r produces in this model
Nonce(a) == [i \in 1..kInitNonceSize |-> (a + i - 1) % 256]
Nonces == {Nonce(0), Nonce(200)}

\* capability bytes the device reports
CapsBytes == {5, 8}

\* the channels the device allocates
NewCids == {U32(57005, 48879), kIdBroadcast}

\* the payload of an INIT response: nonce, new cid, versions, capabilities
InitResponse(n, cid, caps) == n \o htonl(cid) \o <<2, 1, 0, 3>> \o <<caps>>

\* the nonce n with its last byte changed
Spoiled(n) == [n EXCEPT ![kInitNonceSize] = (@ + 1) % 256]

\* what a read of Init may return: INIT responses to the nonces, and
\* responses on another channel, of another opcode, of another length or
\* with a spoiled nonce
InitReports ==
  {DevInit(kIdBroadcast, kCtapHidInit, kInitRespSize,
           InitResponse(n, newcid, caps)) :
     n \in Nonces, newcid \in NewCids, caps \in CapsBytes}
    \cup UNION {
      {DevInit(U32(0, 1), kCtapHidInit, kInitRespSize, InitResponse(n, U32(0, 2), 5)),
       DevInit(kIdBroadcast, kCtapHidWink, kInitRespSize, InitResponse(n, U32(0, 2), 5)),
       DevInit(kIdBroadcast, kCtapHidInit, kInitRespSize - 1, InitResponse(n, U32(0, 2), 5)),
       DevInit(kIdBroadcast, kCtapHidInit, kInitRespSize + 1, InitResponse(n, U32(0, 2), 5)),
       DevInit(kIdBroadcast, kCtapHidInit, kInitRespSize, InitResponse(Spoiled(n), U32(0, 2), 5))} :
      n \in Nonces}

\* the four conditions of the INIT acceptance rule, read off the 64 bytes b
\* the device sent and the challenge that was written
InitFacts(b) ==
  [read |-> TRUE,
   cid |-> SubSeq(b, 1, 4) = <<255, 255, 255, 255>>,
   opcode |-> b[5] = 128 + 6,
   length |-> b[6] * 256 + b[7] = 17,
   nonce |-> SubSeq(b, 8, 15) = SubSeq(wire[1], 9, 16)]

AllFacts == [read |-> TRUE, cid |-> TRUE, opcode |-> TRUE, length |-> TRUE,
             nonce |-> TRUE]

\* the conditions b fails
Defects(b) == {k \in DOMAIN AllFacts : ~InitFacts(b)[k]}

(***************************************************************************)
(* Init, Wink and reads that fail.                                         *)
(***************************************************************************)
\* InitMismatch without the memcmp of the nonce
InitMismatch_NonceIgnored(response, chal) ==
  \/ response.cid # chal.cid
  \/ response.raw[1] # chal.raw[1]
  \/ PayloadLength(response) # kInitRespSize

\* lines 187-190: the response is not the answer to the challenge
InitMismatch(response, chal) ==
  \/ response.cid # chal.cid
  \/ response.raw[1] # chal.raw[1]
  \/ PayloadLength(response) # kInitRespSize
  \/ \E i \in 0..(kInitNonceSize - 1) : InitData(response, i) # InitData(chal, i)

\* InitCid that takes the four bytes least significant first
InitCid_LittleEndian(response) ==
  U32(InitData(response, 11) * 256 + InitData(response, 10),
      InitData(response, 9) * 256 + InitData(response, 8))

\* lines 194-197
InitCid(response) ==
  U32(InitData(response, 8) * 256 + InitData(response, 9),
      InitData(response, 10) * 256 + InitData(response, 11))

\* Init called: the handle is reopened and the challenge built, lines 157-175
Init_Call(n) ==
  /\ pc = "idle"
  /\ dev_' = TRUE
  /\ op' = "Init"
  /\ pc' = "init_write"
  /\ challenge' = [cid |-> kIdBroadcast,
                   raw |-> <<kCtapHidInit, 0, kInitNonceSize>>
                           \o FillCopy(n, 0, kInitNonceSize, kInitDataSize)]
  /\ UNCHANGED <<session, can_wink_, status, snd, rcv, end_time, xc, now,
                 wire, echo, ref, hist>>

\* SendFrame(&challenge) succeeded, line 177
Init_WriteOk ==
  /\ pc = "init_write"
  /\ wire' = Append(wire, Report(challenge))
  /\ pc' = "init_read"
  /\ hist' = [hist EXCEPT !.writes = @ + 1]
  /\ UNCHANGED <<session, can_wink_, dev_, op, status, challenge, snd, rcv,
                 end_time, xc, now, echo, ref>>

\* SendFrame(&challenge) failed, line 178
Init_WriteFail ==
  /\ pc = "init_write"
  /\ pc' = "done"
  /\ status' = kErrOther
  /\ hist' = [hist EXCEPT !.writes = @ + 1]
  /\ UNCHANGED <<session, can_wink_, dev_, op, challenge, snd, rcv, end_time,
                 xc, now, wire, echo, ref>>

\* Init_Read that writes the challenge again after a response it discards
Init_Read_Resend(b, d) ==
  /\ pc = "init_read"
  /\ d <= kReceiveTimeout
  /\ now' = now + d
  /\ LET response == Decode(b)
     IN  IF InitMismatch(response, challenge)
         THEN /\ hist' = [hist EXCEPT !.reads = @ + 1, !.discarded = @ + 1,
                                      !.defects = @ \cup Defects(b),
                                      !.last = InitFacts(b),
                                      !.writes = @ + 1]
              /\ wire' = Append(wire, Report(challenge))
              /\ UNCHANGED <<session, pc, status>>
         ELSE /\ cid_' = InitCid(response)
              /\ has_wink_capability_' =
                   TestMask(InitData(response, 16), kWinkCapabilityMask)
              /\ has_cbor_capability_' =
                   TestMask(InitData(response, 16), kCborCapabilityMask)
              /\ has_msg_capability_' =
                   ~TestMask(InitData(response, 16), kNmsgCapabilityMask)
              /\ pc' = "done"
              /\ status' = kErrNone
              /\ hist' = [hist EXCEPT !.reads = @ + 1, !.last = InitFacts(b),
                                      !.response = b]
              /\ wire' = wire
  /\ UNCHANGED <<can_wink_, dev_, op, challenge, snd, rcv, end_time, xc,
                 echo, ref>>

\* ReceiveFrame(kReceiveTimeout) returned the 64 bytes b after d ms,
\* lines 182-203
Init_Read(b, d) ==
  /\ pc = "init_read"
  /\ d <= kReceiveTimeout
  /\ now' = now + d
  /\ LET response == Decode(b)
     IN  IF InitMismatch(response, challenge)
         THEN /\ hist' = [hist EXCEPT !.reads = @ + 1, !.discarded = @ + 1,
                                      !.defects = @ \cup Defects(b),
                                      !.last = InitFacts(b)]
              /\ UNCHANGED <<session, pc, status>>
         ELSE /\ cid_' = InitCid(response)
              /\ has_wink_capability_' =
                   TestMask(InitData(response, 16), kWinkCapabilityMask)
              /\ has_cbor_capability_' =
                   TestMask(InitData(response, 16), kCborCapabilityMask)
              /\ has_msg_capability_' =
                   ~TestMask(InitData(response, 16), kNmsgCapabilityMask)
              /\ pc' = "done"
              /\ status' = kErrNone
              /\ hist' = [hist EXCEPT !.reads = @ + 1, !.last = InitFacts(b),
                                      !.response = b]
  /\ UNCHANGED <<can_wink_, dev_, op, challenge, snd, rcv, end_time, xc, wire,
                 echo, ref>>

\* Init_ReadFailed that closes the session it found
Init_ReadFailed_ResetsSession(st) ==
  /\ pc = "init_read"
  /\ pc' = "done"
  /\ status' = st
  /\ now' = IF st = kErrTimeout THEN now + kReceiveTimeout ELSE now
  /\ hist' = [hist EXCEPT !.reads = @ + 1, !.last = NoFacts]
  /\ cid_' = kIdBroadcast
  /\ has_wink_capability_' = FALSE
  /\ has_cbor_capability_' = FALSE
  /\ has_msg_capability_' = FALSE
  /\ UNCHANGED <<can_wink_, dev_, op, challenge, snd, rcv, end_time, xc, wire,
                 echo, ref>>

\* ReceiveFrame(kReceiveTimeout) timed out (st = kErrTimeout) or failed
\* (st = kErrOther), lines 184-186
Init_ReadFailed(st) ==
  /\ pc = "init_read"
  /\ pc' = "done"
  /\ status' = st
  /\ now' = IF st = kErrTimeout THEN now + kReceiveTimeout ELSE now
  /\ hist' = [hist EXCEPT !.reads = @ + 1, !.last = NoFacts]
  /\ UNCHANGED <<session, can_wink_, dev_, op, challenge, snd, rcv, end_time,
                 xc, wire, echo, ref>>

\* Wink called, lines 209-211
Wink_Call ==
  /\ pc = "idle"
  /\ dev_
  /\ op' = "Wink"
  /\ can_wink_' = FALSE
  /\ rcv' = [NoRcv EXCEPT !.cmd = kCtapHidWink]
  /\ snd' = SendCommandEntry(kCtapHidWink, <<>>)
  /\ pc' = "send"
  /\ UNCHANGED <<session, dev_, status, challenge, end_time, xc, now, wire,
                 echo, ref, hist>>

\* hid_read_timeout(Remaining) ran into its timeout, lines 444-445
Recv_Timeout ==
  /\ pc = "recv"
  /\ Remaining > 0
  /\ now' = now + Remaining
  /\ Commit(FailStep(Cur, kErrTimeout, TRUE, now + Remaining))
  /\ UNCHANGED <<session, dev_, op, challenge, snd, wire, echo>>

\* hid_read_timeout(Remaining) returned -1, line 442
Recv_Error ==
  /\ pc = "recv"
  /\ Remaining > 0
  /\ Commit(FailStep(Cur, kErrOther, TRUE, now))
  /\ UNCHANGED <<session, dev_, op, challenge, snd, now, wire, echo>>

\* the arguments ExchangeCbor is called with: payload, expect_up_check and
\* what the response buffer holds
ExchangeArgs ==
  {<<<<>>, FALSE, <<>>>>, <<<<>>, TRUE, <<>>>>,
   <<Payload(kInitDataSize), FALSE, <<170>>>>,
   <<Payload(kMaxDataSize), TRUE, <<170>>>>}

(***************************************************************************)
(* Spec: a session from its construction on; Init, Wink and ExchangeCbor   *)
(* against a device that answers each read as it likes.                    *)
(***************************************************************************)
Next ==
  \/ \E n \in Nonces : Init_Call(n)
  \/ Init_WriteOk
  \/ Init_WriteFail
  \/ \E b \in InitReports, d \in {0, DelayStep} :
       hist.reads < MaxReads /\ Init_Read(b, d)
  \/ \E st \in {kErrTimeout, kErrOther} : Init_ReadFailed(st)
  \/ Wink_Call
  \/ \E a \in ExchangeArgs : ExchangeCbor_Call(1, a[1], a[2], a[3])
  \/ Send_WriteOk
  \/ Send_WriteFail
  \/ Recv_Deadline
  \/ \E b \in DeviceReports, d \in Delays(Remaining) : Recv_Device(b, d)
  \/ Recv_Timeout
  \/ Recv_Error
  \/ Return

Spec == Init /\ [][Next]_vars

(***************************************************************************)
(* SpecStatus: ExchangeCbor on an open session whose device answers with   *)
(* a CBOR or ERROR message, or a keepalive, for every first payload byte.  *)
(***************************************************************************)
StatusTable ==
  [c \in SessionCids |->
     {DevInit(c, cmd, bcnt, DevData(b)) :
        cmd \in {kCtapHidCbor, kCtapHidError}, bcnt \in {1, 4}, b \in Byte}
       \cup {DevInit(c, kCtapHidKeepalive, 1, DevData(b)) : b \in {1, 2}}]

NextStatus ==
  \/ \E e \in BOOLEAN, r \in {<<>>, <<170>>} : ExchangeCbor_Call(4, <<>>, e, r)
  \/ Send_WriteOk
  \/ \E b \in StatusTable[cid_] : Recv_Device(b, 0)
  \/ Return

SpecStatus == InitOpen /\ [][NextStatus]_vars

(***************************************************************************)
(* SpecInit: Init against a device that answers the challenge with every   *)
(* capability byte, on two channels it allocates.                          *)
(***************************************************************************)
\* 0xDEADBEEF and 0x01020304
ParseCids == {U32(57005, 48879), U32(258, 772)}

ParseReports ==
  {DevInit(kIdBroadcast, kCtapHidInit, kInitRespSize,
           InitResponse(n, newcid, caps)) :
     n \in Nonces, newcid \in ParseCids, caps \in Byte}

NextInit ==
  \/ \E n \in Nonces : Init_Call(n)
  \/ Init_WriteOk
  \/ \E b \in ParseReports : hist.reads < MaxReads /\ Init_Read(b, 0)
  \/ Return

SpecInit == Init /\ [][NextInit]_vars

(***************************************************************************)
(* SpecSeq: ReceiveCommand on an open session whose device sends messages  *)
(* of one, two and three continuation frames, the frames in order,         *)
(* repeated, skipped or swapped, with init frames and frames of another    *)
(* channel in between.                                                     *)
(***************************************************************************)
SeqTable ==
  [c \in SessionCids |->
     {DevInit(c, kCtapHidCbor, bcnt, DevData(0)) :
        bcnt \in {kInitDataSize + 1, kInitDataSize + kContDataSize + 1,
                  kInitDataSize + 2 * kContDataSize + 1}}
       \cup {DevCont(c, seq, DevData(seq)) : seq \in {0, 1, 2, 5}}
       \cup {DevInit(c, kCtapHidPing, 0, <<>>),
             DevCont(OtherCid(c), 0, DevData(9))}]

NextSeq ==
  \/ SendCommand_Call(1, <<>>)
  \/ Send_WriteOk
  \/ ReceiveCommand_Call
  \/ \E b \in SeqTable[cid_] : Recv_Device(b, 0)
  \/ Return

SpecSeq == InitOpen /\ [][NextSeq]_vars

(***************************************************************************)
(* SpecExchange: ExchangeCbor on an open session, with and without an      *)
(* expected prompt, against the device of Spec answering without delay.    *)
(***************************************************************************)
NextExchange ==
  \/ \E a \in ExchangeArgs : ExchangeCbor_Call(1, a[1], a[2], a[3])
  \/ Send_WriteOk
  \/ Send_WriteFail
  \/ \E b \in DeviceReports : Recv_Device(b, 0)
  \/ Recv_Timeout
  \/ Recv_Error
  \/ Return

SpecExchange == InitOpen /\ [][NextExchange]_vars

(***************************************************************************)
(* SpecLive: Init against a device whose every read completes, DelayStep   *)
(* ms after it was started, with a frame, a timeout or an error.  Reads    *)
(* and elapsed time are counted up to MaxReads reads and MaxReads *        *)
(* kReceiveTimeout ms and stay at these values from then on, which stand   *)
(* for "as many or more".  The fairness conditions are those of the HID    *)
(* layer: a hid_write that was started returns, and so does a              *)
(* hid_read_timeout, which has a timeout.                                  *)
(***************************************************************************)
\* lines 182-203, for a read beyond those the model counts
Init_ReadOn(b, d) ==
  /\ pc = "init_read"
  /\ hist.reads = MaxReads
  /\ d <= kReceiveTimeout
  /\ now' = Min(now + d, MaxReads * kReceiveTimeout)
  /\ LET response == Decode(b)
     IN  IF InitMismatch(response, challenge)
         THEN /\ hist' = [hist EXCEPT
                            !.discarded = Min(@ + 1, MaxReads),
                            !.defects = @ \cup Defects(b),
                            !.last = InitFacts(b)]
              /\ UNCHANGED <<session, pc, status>>
         ELSE /\ cid_' = InitCid(response)
              /\ has_wink_capability_' =
                   TestMask(InitData(response, 16), kWinkCapabilityMask)
              /\ has_cbor_capability_' =
                   TestMask(InitData(response, 16), kCborCapabilityMask)
              /\ has_msg_capability_' =
                   ~TestMask(InitData(response, 16), kNmsgCapabilityMask)
              /\ pc' = "done"
              /\ status' = kErrNone
              /\ hist' = [hist EXCEPT !.last = InitFacts(b), !.response = b]
  /\ UNCHANGED <<can_wink_, dev_, op, challenge, snd, rcv, end_time, xc, wire,
                 echo, ref>>

\* the hid_write of Init returns
WriteCompletes == Init_WriteOk \/ Init_WriteFail

\* the hid_read_timeout of Init returns
ReadCompletes ==
  \/ \E b \in InitReports : hist.reads < MaxReads /\ Init_Read(b, DelayStep)
  \/ \E b \in InitReports : Init_ReadOn(b, DelayStep)
  \/ \E st \in {kErrTimeout, kErrOther} : Init_ReadFailed(st)

NextLive ==
  \/ \E n \in Nonces : Init_Call(n)
  \/ WriteCompletes
  \/ ReadCompletes
  \/ Return

SpecLive ==
  Init /\ [][NextLive]_vars /\ WF_vars(WriteCompletes) /\ WF_vars(ReadCompletes)

(***************************************************************************)
(* Claims on the framing, checked under SpecFraming.                       *)
(***************************************************************************)
\* the loopback receive has been handed every report SendCommand wrote
AllEchoed == op = "ReceiveCommand" /\ echo = Len(wire)

RoundTripOk ==
  /\ pc = "done"
  /\ status = kErrNone
  /\ rcv.cmd = OrInitMask(snd.cmd)
  /\ rcv.data = snd.data

\* C1 as stated: for every opcode and every payload of at most kMaxDataSize
\* bytes, a ReceiveCommand fed the frames SendCommand wrote returns Ok with
\* the opcode 0x80|cmd and the payload that was sent.
C1_RoundTripEveryOpcode ==
  (AllEchoed /\ Len(snd.data) <= kMaxDataSize) => RoundTripOk

\* C1 amended: the same for every opcode but ERROR (0x3F); the receive
\* returns exactly when the last frame written has been read.
C1_RoundTrip ==
  (op = "ReceiveCommand" /\ Len(snd.data) <= kMaxDataSize
     /\ OrInitMask(snd.cmd) # kCtapHidError)
  => /\ AllEchoed => RoundTripOk
     /\ pc = "done" => AllEchoed

C1_Witness ==
  /\ AllEchoed
  /\ RoundTripOk
  /\ snd.cmd = 1
  /\ Len(rcv.data) = kMaxDataSize
  /\ Len(wire) = 129

CeilDiv(a, b) == (a + b - 1) \div b

\* the bytes of payload that report j of a message of k bytes carries
ChunkOffset(j) == IF j = 1 THEN 0 ELSE kInitDataSize + (j - 2) * kContDataSize
ChunkLen(j, k) ==
  IF j = 1 THEN Min(k, kInitDataSize) ELSE Min(k - ChunkOffset(j), kContDataSize)

\* report j of the call is frame j of the message snd.data sent as snd.cmd
WellFramed(j) ==
  LET k == Len(snd.data)
      r == wire[j]
      at == IF j = 1 THEN 8 ELSE 6
  IN  /\ r[6] = (IF j = 1 THEN OrInitMask(snd.cmd) ELSE j - 2)
      /\ j > 1 => r[6] <= 127
      /\ j = 1 => r[7] * 256 + r[8] = k
      /\ ChunkLen(j, k) > 0 \/ j = 1
      /\ \A i \in 1..ChunkLen(j, k) : r[at + i] = snd.data[ChunkOffset(j) + i]

\* C2: a SendCommand of k <= 7609 bytes whose writes all succeed writes
\* 1 + ceil(max(0, k - 57) / 59) frames: the init frame with type 0x80|cmd,
\* bcnt = k and the first min(k, 57) bytes, then continuation frames of types
\* 0, 1, 2, ... (never above 0x7F), each with the next up to 59 bytes.
C2_Segmentation ==
  (op = "SendCommand" /\ pc = "done" /\ status = kErrNone
     /\ Len(snd.data) <= kMaxDataSize)
  => LET k == Len(snd.data)
     IN  /\ Len(wire) = 1 + CeilDiv(IF k > 57 THEN k - 57 ELSE 0, 59)
         /\ hist.writes = Len(wire)
         /\ \A j \in 1..Len(wire) : WellFramed(j)

C2_Witness ==
  /\ op = "SendCommand" /\ pc = "done" /\ status = kErrNone
  /\ Len(snd.data) = 200
  /\ Len(wire) = 4
  /\ wire[4][6] = 2
  /\ snd.frame_len = 0

\* C4: a send of more than kMaxDataSize bytes fails with InvalidLength and
\* performs no HID write, in SendCommand itself and in ExchangeCbor when
\* 1 + |payload| > kMaxDataSize.
C4_LengthCeilingOnSend ==
  /\ (op = "SendCommand" /\ Len(snd.data) > kMaxDataSize)
     => (hist.writes = 0 /\ (pc = "done" => status = kErrInvalidLength))
  /\ (op = "ExchangeCbor" /\ 1 + Len(xc.payload) > kMaxDataSize)
     => (hist.writes = 0 /\ pc = "done" /\ status = kErrInvalidLength)

\* what the code does hold to: the ceiling of ExchangeCbor
C4_ExchangeCborCeiling ==
  (op = "ExchangeCbor" /\ 1 + Len(xc.payload) > kMaxDataSize)
  => (hist.writes = 0 /\ pc = "done" /\ status = kErrInvalidLength)

(***************************************************************************)
(* Claims on Init, Wink and ExchangeCbor, checked under Spec (C6 under     *)
(* SpecStatus).                                                            *)
(***************************************************************************)
\* C3: frames of other channels, read before the first accepted init frame
\* or between continuation frames, change nothing of a ReceiveCommand whose
\* deadline does not expire: status, opcode, payload and the expected
\* sequence number are those of the same receive without these frames.
C3_ChannelIsolation ==
  (pc = "recv" \/ (rcv.phase = "ret" /\ ~rcv.io)) => rcv = ref

C3_Witness ==
  /\ op = "ExchangeCbor" /\ pc = "done" /\ status = kErrNone
  /\ hist.skipped_mid = 1
  /\ Len(rcv.data) = kInitDataSize + 1
  /\ rcv.seq = 1

\* C5: Init returns Ok on a frame it read exactly when the frame has cid
\* 0xFFFFFFFF, opcode INIT, declared length 17 and the nonce of the challenge
\* of this call; any other frame leaves the session as it is and Init reads
\* on; the session changes at no other step.
C5_InitAcceptance ==
  /\ [][(op = "Init" /\ pc = "init_read" /\ hist'.last.read)
         => IF hist'.last = AllFacts
            THEN pc' = "done" /\ status' = kErrNone
            ELSE pc' = "init_read" /\ session' = session
                 /\ hist'.writes = hist.writes]_vars
  /\ [][session' # session
         => (op = "Init" /\ hist'.last = AllFacts /\ pc' = "done"
             /\ status' = kErrNone)]_vars

C5_Witness ==
  /\ op = "Init" /\ pc = "done" /\ status = kErrNone
  /\ hist.defects = {"nonce"}
  /\ hist.last = AllFacts
  /\ cid_ = U32(57005, 48879)
  /\ has_wink_capability_

\* ExchangeCbor has received, as the message that ends the keepalive loop, a
\* CBOR message with a payload
TerminatingCbor ==
  /\ op = "ExchangeCbor"
  /\ rcv.phase = "ret" /\ ~rcv.io /\ rcv.status = kErrNone
  /\ rcv.cmd = kCtapHidCbor
  /\ rcv.data # <<>>

\* C6: with b the first byte of the terminating CBOR payload, ExchangeCbor
\* returns Other for b in {0x10, 0x13}, 0xE0..0xEF or 0xF0..0xF8, returns b
\* for b in the known set (appending the rest of the payload to the response
\* when b is Ok) and aborts for any other b; the three ranges are disjoint
\* from the known set.
C6_StatusNormalization ==
  TerminatingCbor =>
    LET b == rcv.data[1]
        mapped == {16, 19} \cup (224..239) \cup (240..248)
    IN  /\ mapped \cap StatusEnum = {}
        /\ b \in mapped => (pc = "done" /\ status = 127)
        /\ b \in StatusEnum => (pc = "done" /\ status = b)
        /\ b = 0 => xc.response_cbor = xc.before \o Tail(rcv.data)
        /\ b \notin (mapped \cup StatusEnum) => pc = "aborted"

C6_Witness ==
  /\ TerminatingCbor
  /\ rcv.data[1] = 242
  /\ pc = "done" /\ status = kErrOther
  /\ hist.failmsg = "vendor"

\* C7: every status ExchangeCbor returns is one of the known status values.
C7_StatusAlwaysKnown ==
  (op = "ExchangeCbor" /\ pc = "done") => status \in StatusEnum

\* C8: in one ExchangeCbor the prompt is emitted once if a keepalive
\* UpNeeded has been processed, as soon as the first has been, and never
\* otherwise; each valid keepalive is followed by one more ReceiveCommand.
C8_PromptOnce ==
  op = "ExchangeCbor" =>
    /\ hist.prompts = (IF hist.upneeded > 0 THEN 1 ELSE 0)
    /\ xc.has_sent_prompt = (hist.upneeded > 0)
    /\ hist.calls > 0 => hist.calls = hist.keepalives + 1

C8_Witness ==
  /\ op = "ExchangeCbor" /\ pc = "done" /\ status = kErrNone
  /\ hist.upneeded = 2
  /\ hist.prompts = 1
  /\ xc.response_cbor = <<129, 24, 42>>

\* C9: Wink returns Ok, and can_wink_ is true after it, only if an init
\* frame on the session's channel with opcode WINK and bcnt = 0 was read
\* during the call; otherwise it returns an error and can_wink_ is false.
C9_WinkNeedsWinkResponse ==
  (op = "Wink" /\ pc = "done") =>
    /\ can_wink_ = (status = kErrNone)
    /\ status = kErrNone => hist.wink_seen

\* C10: the deadline of a ReceiveCommand is now + timeout at its entry and
\* stays; a frame is read only while budget is left and the read is over
\* by the deadline; with no budget left the call returns Timeout without a
\* read.
C10_SingleDeadline ==
  /\ [][pc = "recv" =>
          /\ hist'.reads = hist.reads + 1
               => (end_time - now > 0 /\ now' <= end_time)
          /\ end_time - now <= 0
               => (hist'.reads = hist.reads /\ now' = now
                   /\ rcv'.phase = "ret" /\ rcv'.status = kErrTimeout)
          /\ (pc' = "recv" /\ hist'.calls = hist.calls)
               => end_time' = end_time]_vars
  /\ [][hist'.calls = hist.calls + 1
         => end_time' = now' + kReceiveTimeout]_vars

C10_Witness ==
  /\ hist.deadline_hit
  /\ hist.reads = 2
  /\ hist.skipped = 1
  /\ rcv.phase = "ret" /\ rcv.status = kErrTimeout
  /\ now = end_time

(***************************************************************************)
(* Claims on the parsing of the INIT response, checked under SpecInit.     *)
(***************************************************************************)
\* C11: when Init accepts a response, cid_ is the big-endian value of the
\* payload bytes 8..11 and, with c the payload byte 16, wink is bit 0 of c,
\* cbor is bit 2 of c and msg is the negation of bit 3 of c.
C11_InitResponseParsing ==
  (op = "Init" /\ pc = "done" /\ status = kErrNone) =>
    LET payload(i) == hist.response[8 + i]
        c == payload(16)
    IN  /\ cid_ = <<payload(8) * 256 + payload(9),
                    payload(10) * 256 + payload(11)>>
        /\ has_wink_capability_ = (c % 2 = 1)
        /\ has_cbor_capability_ = ((c \div 4) % 2 = 1)
        /\ has_msg_capability_ = ((c \div 8) % 2 = 0)

C11_Witness ==
  /\ op = "Init" /\ pc = "done" /\ status = kErrNone
  /\ SubSeq(hist.response, 16, 19) = <<222, 173, 190, 239>>
  /\ hist.response[24] = 13
  /\ cid_ = <<57005, 48879>>
  /\ has_wink_capability_ /\ has_cbor_capability_ /\ ~has_msg_capability_

(***************************************************************************)
(* Claims on the lengths ReceiveCommand accepts, checked under SpecFraming *)
(* (the loopback hands back messages of up to kMaxDataSize + MaxOver       *)
(* bytes).                                                                 *)
(***************************************************************************)
\* C12: once the init frame a ReceiveCommand accepted (session's channel,
\* opcode not ERROR) declares more than 7609 bytes, the receive has returned
\* InvalidLength with no payload and reads nothing more; a receive that
\* returns Ok returns as many bytes as that init frame declared.
C12_LengthCeilingOnReceive ==
  (hist.inits > 0 /\ hist.type # 128 + 63) =>
    /\ hist.bcnt > 7609 =>
          /\ rcv.phase = "ret" /\ rcv.status = kErrInvalidLength
          /\ rcv.data = <<>>
          /\ pc # "recv"
          /\ op = "ReceiveCommand" => (pc = "done" /\ status = kErrInvalidLength)
    /\ (rcv.phase = "ret" /\ ~rcv.io /\ rcv.status = kErrNone) =>
          Len(rcv.data) = hist.bcnt

C12_Witness ==
  /\ op = "ReceiveCommand" /\ pc = "done" /\ status = kErrInvalidLength
  /\ hist.bcnt = 7610
  /\ hist.reads = 1
  /\ Len(wire) = 130
  /\ rcv.data = <<>>

(***************************************************************************)
(* Claims on the order of continuation frames, checked under SpecSeq.      *)
(***************************************************************************)
\* the first k frames of the session's channel that the continuation loop
\* read are continuation frames 0, 1, ..., k - 1
InOrder(k) == \A i \in 1..k : hist.types[i] = i - 1

\* C13: after an accepted init frame that declares more than 57 bytes, the
\* frames of the session's channel must be the continuation frames 0, 1, 2,
\* ...; at the first that is an init frame or has another sequence number
\* ReceiveCommand returns InvalidSeq and reads no more, and it returns Ok
\* only after all the continuation frames of the message, in order.
C13_SequenceDiscipline ==
  (hist.inits > 0 /\ hist.type # 128 + 63 /\ hist.bcnt > 57
     /\ hist.bcnt <= 7609 /\ rcv.phase \in {"cont", "ret"}) =>
    LET n == Len(hist.types)
    IN  /\ n > 0 => InOrder(n - 1)
        /\ (n > 0 /\ hist.types[n] # n - 1) =>
              /\ rcv.phase = "ret" /\ ~rcv.io
              /\ rcv.status = kErrInvalidSeq
              /\ pc # "recv"
        /\ (rcv.phase = "ret" /\ ~rcv.io /\ rcv.status = kErrNone) =>
              /\ InOrder(n)
              /\ n = CeilDiv(hist.bcnt - 57, 59)
        /\ (rcv.phase = "ret" /\ ~rcv.io /\ rcv.status = kErrInvalidSeq) =>
              (n > 0 /\ hist.types[n] # n - 1)

C13_Witness ==
  /\ op = "ReceiveCommand" /\ pc = "done" /\ status = kErrInvalidSeq
  /\ hist.bcnt = 117
  /\ hist.types = <<0, 0>>
  /\ Len(rcv.data) = 116

(***************************************************************************)
(* Claims on Wink, Init and the session, checked under Spec.               *)
(***************************************************************************)
\* C14: when the ReceiveCommand of Wink ends on a ReceiveFrame that failed
\* with Timeout or Other, at whatever point of the reception, Wink returns
\* that status.
C14_WinkIoErrorsBubbleUp ==
  (op = "Wink" /\ pc = "done" /\ rcv.phase = "ret" /\ rcv.io)
  => (rcv.status \in {kErrTimeout, kErrOther} /\ status = rcv.status)

\* C15: after an Init that returned Ok, cid_ is not 0xFFFFFFFF; no frame
\* Wink or ExchangeCbor writes carries the cid 0xFFFFFFFF, and no
\* ReceiveCommand accepts a frame addressed to it.
C15_BroadcastOnlyInInit ==
  /\ (op = "Init" /\ pc = "done" /\ status = kErrNone)
       => cid_ # <<65535, 65535>>
  /\ op \in {"Wink", "ExchangeCbor"}
       => /\ \A j \in 1..Len(wire) :
               SubSeq(wire[j], 2, 5) # <<255, 255, 255, 255>>
          /\ hist.inits > 0 => cid_ # <<65535, 65535>>

\* C16: cid_ and the three capability flags change only in the step in which
\* Init accepts a response and returns Ok: no step of Wink or ExchangeCbor
\* changes them, and no step of an Init up to and including its return of
\* Timeout or Other does, so that such an Init leaves them as it found them.
C16_SessionFrame ==
  /\ [][(op = "Wink" \/ op = "ExchangeCbor") => (session' = session)]_vars
  /\ [][(op' = "Init" /\ ~(pc' = "done" /\ status' = kErrNone))
         => (session' = session)]_vars
  /\ [][op' = "none" => (session' = session)]_vars

C16_Witness ==
  /\ op = "Init" /\ pc = "done" /\ status = kErrTimeout
  /\ hist.discarded = 1
  /\ cid_ = <<57005, 48879>>
  /\ has_wink_capability_ /\ has_cbor_capability_ /\ has_msg_capability_

\* the frames of a request of k bytes
FramesOf(k) == 1 + CeilDiv(IF k > 57 THEN k - 57 ELSE 0, 59)

\* C17: an Init writes one frame, the challenge on cid 0xFFFFFFFF, before
\* its first read and none after it, however many responses it discards; a
\* Wink or an ExchangeCbor has written all the frames of its one request
\* when it first reads and writes none from then on.
C17_NoResendNoPipelining ==
  /\ [][(op' = "Init" /\ hist'.reads > 0)
         => /\ hist'.writes = 1
            /\ Len(wire') = 1
            /\ SubSeq(wire'[1], 2, 6) = <<255, 255, 255, 255, 134>>
            /\ wire' = wire]_vars
  /\ [][(op' = "Init" /\ pc' = "done") => (hist'.writes = 1)]_vars
  /\ [][((op' = "Wink" \/ op' = "ExchangeCbor") /\ hist'.reads > 0)
         => /\ wire' = wire
            /\ hist'.writes = hist.writes
            /\ Len(wire') = FramesOf(IF op' = "Wink" THEN 0
                                     ELSE 1 + Len(xc'.payload))]_vars

C17_Witness ==
  /\ op = "Init" /\ pc = "done" /\ status = kErrNone
  /\ hist.discarded = 2
  /\ hist.reads = 3
  /\ Len(wire) = 1

(***************************************************************************)
(* Claims on the end of ExchangeCbor, checked under Spec.                  *)
(***************************************************************************)
\* ExchangeCbor has returned after a ReceiveCommand that returned Ok on a
\* frame that is not a keepalive: the message that ended the keepalive loop
EndedLoop ==
  /\ op = "ExchangeCbor" /\ pc = "done"
  /\ rcv.phase = "ret" /\ ~rcv.io /\ rcv.status = kErrNone
  /\ hist.inits > 0 /\ hist.type # 128 + 59

\* C18: when the message that ended the keepalive loop has an opcode other
\* than CBOR, ExchangeCbor returns InvalidCommand; when it is CBOR with an
\* empty payload, InvalidLength; in both cases the response buffer is left
\* alone, and any other status or response comes from a CBOR message with a
\* payload.
C18_TerminatingFrameCheck ==
  EndedLoop =>
    /\ hist.type # 128 + 16
          => (status = kErrInvalidCommand /\ xc.response_cbor = xc.before)
    /\ (hist.type = 128 + 16 /\ hist.bcnt = 0)
          => (status = kErrInvalidLength /\ xc.response_cbor = xc.before)
    /\ (xc.response_cbor # xc.before
          \/ status \notin {kErrInvalidCommand, kErrInvalidLength})
          => (hist.type = 128 + 16 /\ hist.bcnt > 0)

\* C19: a KEEPALIVE message whose payload is not the one byte 1 or 2 makes
\* ExchangeCbor return Other at once, with no prompt and no further
\* ReceiveCommand; a KEEPALIVE message of one byte 1 or 2 is followed by
\* another ReceiveCommand.
C19_InvalidKeepaliveAborts ==
  [][(op = "ExchangeCbor" /\ pc = "recv" /\ hist'.inits = hist.inits + 1
        /\ hist'.type = 128 + 59 /\ hist'.bcnt <= 57)
     => IF hist'.keepalives = hist.keepalives + 1
        THEN /\ pc' = "recv" /\ rcv'.phase = "first"
             /\ hist'.calls = hist.calls + 1
        ELSE /\ pc' = "done" /\ status' = kErrOther
             /\ hist'.prompts = hist.prompts
             /\ hist'.calls = hist.calls]_vars

C19_Witness ==
  /\ op = "ExchangeCbor" /\ pc = "done" /\ status = kErrOther
  /\ hist.type = 128 + 59 /\ hist.bcnt = 1
  /\ rcv.data = <<3>>
  /\ hist.keepalives = 1
  /\ hist.reads = 2

(***************************************************************************)
(* Claims on expect_up_check, checked under SpecExchange.                  *)
(***************************************************************************)
Diags == {"none", "unexpected", "missing"}

\* the call c as it stands when it was made with expect_up_check = e and
\* has logged the diagnostic g
Twin(c, e, g) == [c EXCEPT !.xc.expect_up_check = e, !.hist.diag = g]

\* what a call holds besides expect_up_check and the prompt diagnostic: its
\* position, status, reads, writes, prompts and response
Visible(c) == [c EXCEPT !.xc.expect_up_check = FALSE, !.hist.diag = "none"]

\* C20: two ExchangeCbor calls that differ in expect_up_check only, and so
\* far in nothing but the prompt diagnostic, differ in nothing but the
\* prompt diagnostic after the same next step: the entry with the same
\* arguments, the same outcome of a SendFrame, the same frame read or the
\* same failure of a read (the frames written are those of snd, which no
\* step computes from the arguments but at the entry).
C20_ExpectAffectsDiagnosticsOnly ==
  /\ pc = "idle" =>
        \A a \in ExchangeArgs :
          LET e1 == ExchangeEntry(1, a[1], TRUE, a[3])
              e2 == ExchangeEntry(1, a[1], FALSE, a[3])
          IN  [e1 EXCEPT !.xc.expect_up_check = FALSE] = e2
  /\ op = "ExchangeCbor" =>
        \A g \in Diags :
          LET t == Twin(Cur, ~xc.expect_up_check, g)
          IN  /\ pc = "send" =>
                    \A st \in {kErrNone, kErrOther} :
                      Visible(WriteStep(Cur, SendCommandNext(snd), st, now))
                        = Visible(WriteStep(t, SendCommandNext(snd), st, now))
              /\ pc = "recv" =>
                    /\ \A b \in DeviceReports :
                         Visible(ReadStep(Cur, b, now))
                           = Visible(ReadStep(t, b, now))
                    /\ \A st \in {kErrTimeout, kErrOther}, read \in BOOLEAN :
                         Visible(FailStep(Cur, st, read, now))
                           = Visible(FailStep(t, st, read, now))

C20_Witness ==
  /\ op = "ExchangeCbor" /\ pc = "done" /\ status = kErrNone
  /\ ~xc.expect_up_check
  /\ hist.prompts = 1
  /\ hist.diag = "unexpected"
  /\ xc.response_cbor = <<129, 24, 42>>

(***************************************************************************)
(* Claims on the response buffer, checked under Spec.                      *)
(***************************************************************************)
\* C22: when ExchangeCbor returns Ok the response buffer holds the received
\* payload without its status byte, and when it returns any other status
\* the buffer is as it was before the call.
C22_ResponseOnlyOnOk ==
  (op = "ExchangeCbor" /\ pc = "done") =>
    IF status = kErrNone
    THEN xc.response_cbor = Tail(rcv.data)
    ELSE xc.response_cbor = xc.before

\* the part the code does hold to for a buffer that was empty: Ok leaves the
\* payload without its status byte in it
C22_OkIntoEmptyBuffer ==
  (op = "ExchangeCbor" /\ pc = "done" /\ status = kErrNone
     /\ xc.before = <<>>)
  => xc.response_cbor = Tail(rcv.data)

(***************************************************************************)
(* Claims on the termination of Init, checked under SpecLive.              *)
(***************************************************************************)
\* C21: every Init returns, with Ok, Timeout or Other, whenever each of its
\* HID writes and reads completes and time advances, also when the frames
\* that arrive all fail the acceptance rule.
C21_InitTerminates ==
  (op = "Init" /\ pc # "done")
    ~> (op = "Init" /\ pc = "done"
        /\ status \in {kErrNone, kErrTimeout, kErrOther})

\* the part the code does hold to: an Init that returns, returns Ok, Timeout
\* or Other
C21_InitStatuses ==
  (op = "Init" /\ pc = "done")
  => status \in {kErrNone, kErrTimeout, kErrOther}

====
